---- MODULE Spec2Model ----
(***************************************************************************)
(* The DCOLock sale and vesting ledger (src/unnamed/part_004) as a state   *)
(* machine: one action per external function of the contract, each a       *)
(* whole transaction (a revert restores the state the call started from).  *)
(*                                                                         *)
(* Units.  TLC's integers are 32 bits wide, so the contract's decimal      *)
(* constants are kept in coarser units, the structure of every formula     *)
(* unchanged: prices in units of 100 (the 1000 step is 10, the 7000 /      *)
(* 8000 / 11000 checkpoints are 70 / 80 / 110), thresholds in units of     *)
(* 12500 (137500 is 11, 37500 is 3, 325000 / 350000 / 400000 are           *)
(* 26 / 28 / 32), 10**18 as 10, the 1000000 divisor as 2, uint256 as      *)
(* 16 bits, and block.timestamp in days since deployment.                  *)
(*                                                                         *)
(* The Sign & Confirm flow of the Safe front-end (src/src/App.jsx) is a    *)
(* second specification, AppSpec, over its own variables.                  *)
(***************************************************************************)
EXTENDS Integers, Sequences, FiniteSets, TLC

\* ------------------------------------------------------------ constants
UINT_MAX == 65535
SCALE == 10
PRICE_STEP == 10
USD_DIVISOR == 2
INIT_INCREMENT == 3
INIT_THRESHOLD == 11
CHECKPOINT_1 == 70
INCREMENT_1 == 26
CHECKPOINT_2 == 80
INCREMENT_2 == 28
CHECKPOINT_3 == 110
INCREMENT_3 == 32
DCO_DAYS == 101
SEVEN_MONTH_DAYS == 187
ONE_YEAR_DAYS == 342
INIT_PRICE == 50

\* --------------------------------------------------------------- bounds
\* tokens the owner holds at deployment (the token's supply)
OwnerSupply == 12
\* releaseZKTC is tried while totalUsdGathered stays within this
MaxUsdGathered == 45
\* transactions executed in one run
MaxTx == 5

\* --------------------------------------------------------------- inputs
OWNER == "owner"
ZERO == "zero"
Users == {"alice", "bob"}
Addr == {OWNER} \cup Users
Buyers == {"alice", ZERO}
Releasers == {"alice"}
UsdAmounts == {0, 15}
InjectAmounts == {0, OwnerSupply \div 2}
PriceInputs == {0, 60}
IncrementInputs == {0, INCREMENT_1}
ThresholdInputs == {40}
UsdGatheredInputs == {22}
AllocationInputs == {0, 1}
OwnerWithdrawInputs == {0, 1}
EndTimeInputs == {SEVEN_MONTH_DAYS}
TimePeriodInputs == {<<ONE_YEAR_DAYS, SEVEN_MONTH_DAYS>>}
TimePoints == {DCO_DAYS, SEVEN_MONTH_DAYS, ONE_YEAR_DAYS}
WalletSupplierInputs == {"bob", ZERO}
WalletInputs == {<<"btc", "alice", "sol">>, <<"btc", ZERO, "sol">>, <<"", "alice", "sol">>}
\* purchase amounts of the two-call / one-call comparison
MergeAmounts == {7, 15}
\* the Safe of the front-end (src/src/App.jsx): its owners, the Safe
\* transaction hashes that can be proposed, and the Safe's threshold
SafeOwners == {"o1", "o2", "o3"}
SafeTxHashes == {"h1", "h2"}
SAFE_THRESHOLD == 2

VARIABLES
    now,
    tokenPrice,
    tokenSold,
    DCO_END_TIME,
    SEVEN_MONTHS,
    ONE_YEAR,
    totalDonations,
    totalUsdGathered,
    incrementThreshold,
    threshold,
    userLockedTokens,
    releasers,
    walletSuppliers,
    btcAddress,
    ethAddress,
    solAddress,
    balance,
    ownerTokens,
    txCount,
    last,
    confirmations,
    isExecuted,
    pendingTransactions

ledgerVars == <<tokenPrice, tokenSold, DCO_END_TIME, SEVEN_MONTHS, ONE_YEAR,
                totalDonations, totalUsdGathered, incrementThreshold, threshold,
                userLockedTokens, releasers, walletSuppliers, btcAddress,
                ethAddress, solAddress, balance, ownerTokens>>
\* the Safe Transaction Service (confirmations collected per safeTxHash, the
\* executed hashes) and the list the page last fetched from it
appVars == <<confirmations, isExecuted, pendingTransactions>>
vars == <<now, ledgerVars, txCount, last, appVars>>

\* ------------------------------------------------------- state as value
NoLock == [totalAmount |-> 0, sevenMonthAmount |-> 0, oneYearAmount |-> 0,
           sevenMonthClaimed |-> 0, oneYearClaimed |-> 0, lockTimestamp |-> 0]

Ledger == [tokenPrice |-> tokenPrice, tokenSold |-> tokenSold,
           DCO_END_TIME |-> DCO_END_TIME, SEVEN_MONTHS |-> SEVEN_MONTHS,
           ONE_YEAR |-> ONE_YEAR, totalDonations |-> totalDonations,
           totalUsdGathered |-> totalUsdGathered,
           incrementThreshold |-> incrementThreshold, threshold |-> threshold,
           userLockedTokens |-> userLockedTokens, releasers |-> releasers,
           walletSuppliers |-> walletSuppliers, btcAddress |-> btcAddress,
           ethAddress |-> ethAddress, solAddress |-> solAddress,
           balance |-> balance, ownerTokens |-> ownerTokens]

Event(name, args) == [name |-> name, args |-> args]

\* a call that returned: the state it leaves, what it transferred out, its events
Ok(s, to, sent, events) ==
    [err |-> "none", st |-> s, to |-> to, sent |-> sent, events |-> events, wrote |-> FALSE]

\* a call that reverted from entry state s; wrote: a storage write came before
\* the revert (and was undone by it)
Revert(e, s, wrote) ==
    [err |-> e, st |-> s, to |-> ZERO, sent |-> 0, events |-> <<>>, wrote |-> wrote]

PANIC == "Panic(0x11)"
UNAUTHORIZED_OWNER == "OwnableUnauthorizedAccount"
UNAUTHORIZED_ROLE == "AccessControlUnauthorizedAccount"
ERC20_BALANCE == "ERC20InsufficientBalance"

\* ------------------------------------------------------------ the token
\* zkToken.safeTransfer(to, amount) out of the contract's own balance
CanTransfer(s, amount) == amount <= s.balance

Transfer(s, to, amount) ==
    [s EXCEPT !.balance = @ - amount,
              !.ownerTokens = IF to = OWNER THEN @ + amount ELSE @]

\* ------------------------------------------------------- view functions
\* mutant of TokensFor: the division rounds up
TokensFor_roundUp(s, amount) == (amount * SCALE + s.tokenPrice - 1) \div s.tokenPrice

\* (amount * 10 ** 18) / tokenPrice at the price the ledger holds
TokensFor(s, amount) == (amount * SCALE) \div s.tokenPrice

getTotalLockedTokens(s) == s.tokenSold

\* mutant of getAvailableForWithdrawal: the tokens sold are not set aside
getAvailableForWithdrawal_ignoresSold(s) ==
    IF s.balance < s.totalDonations THEN -1
    ELSE s.balance - s.totalDonations

\* balance - totalDonations - totalLocked in checked arithmetic: -1 stands for
\* the Panic of an underflowing subtraction
getAvailableForWithdrawal(s) ==
    IF s.balance < s.totalDonations THEN -1
    ELSE IF s.balance - s.totalDonations < getTotalLockedTokens(s) THEN -1
    ELSE s.balance - s.totalDonations - getTotalLockedTokens(s)

Quote(err, tokensToReceive, donatedTokens) ==
    [err |-> err, tokensToReceive |-> tokensToReceive, donatedTokens |-> donatedTokens]

getQuote(s, usdtAmount, donationAmount) ==
    IF usdtAmount = 0 /\ donationAmount = 0 THEN Quote("none", 0, 0)
    ELSE IF s.tokenPrice = 0 THEN Quote("InvalidTokenPrice", 0, 0)
    ELSE IF usdtAmount * SCALE > UINT_MAX \/ donationAmount * SCALE > UINT_MAX
    THEN Quote(PANIC, 0, 0)
    ELSE LET tokensToReceive == TokensFor(s, usdtAmount)
             donatedTokens == TokensFor(s, donationAmount)
         IN IF usdtAmount = 0 THEN Quote("none", 0, donatedTokens)
            ELSE IF s.balance < s.totalDonations THEN Quote(PANIC, 0, 0)
            ELSE LET availableTokens == s.balance - s.totalDonations
                 IN IF availableTokens = 0 THEN Quote("none", 0, donatedTokens)
                    ELSE IF tokensToReceive + donatedTokens > availableTokens
                    THEN IF availableTokens < donatedTokens THEN Quote(PANIC, 0, 0)
                         ELSE Quote("none", availableTokens - donatedTokens, donatedTokens)
                    ELSE Quote("none", tokensToReceive, donatedTokens)

\* ------------------------------------------------------------ lock-merge
Locked(err, s, events) == [err |-> err, st |-> s, events |-> events]

\* mutant of lockTokensForUser: a top-up replaces totalAmount instead of adding to it
lockTokensForUser_mergeOverwrites(s, user, amount, t) ==
    IF user = ZERO THEN Locked("InvalidAddress", s, <<>>)
    ELSE IF amount = 0 THEN Locked("AmountMustBeGreaterThanZero", s, <<>>)
    ELSE LET userLock == s.userLockedTokens[user]
             halfAmount == amount \div 2
             ev == <<Event("TokensLocked", <<user, amount, t>>)>>
         IN Locked("none",
                   [s EXCEPT !.userLockedTokens[user] =
                       [@ EXCEPT !.totalAmount = amount,
                                 !.sevenMonthAmount =
                                     IF userLock.totalAmount > 0 THEN @ + halfAmount
                                     ELSE halfAmount,
                                 !.oneYearAmount =
                                     IF userLock.totalAmount > 0
                                     THEN @ + (amount - halfAmount)
                                     ELSE amount - halfAmount,
                                 !.lockTimestamp =
                                     IF userLock.totalAmount > 0 THEN @ ELSE t]],
                   ev)

\* mutant of lockTokensForUser: the seven-month tranche takes the larger half
lockTokensForUser_halfRoundsUp(s, user, amount, t) ==
    IF user = ZERO THEN Locked("InvalidAddress", s, <<>>)
    ELSE IF amount = 0 THEN Locked("AmountMustBeGreaterThanZero", s, <<>>)
    ELSE LET userLock == s.userLockedTokens[user]
             halfAmount == (amount + 1) \div 2
             remainingAmount == amount - halfAmount
             ev == <<Event("TokensLocked", <<user, amount, t>>)>>
         IN IF userLock.totalAmount > 0
            THEN IF userLock.totalAmount > UINT_MAX - amount
                 THEN Locked("OverflowDetected", s, <<>>)
                 ELSE Locked("none",
                        [s EXCEPT !.userLockedTokens[user] =
                            [@ EXCEPT !.totalAmount = @ + amount,
                                      !.sevenMonthAmount = @ + halfAmount,
                                      !.oneYearAmount = @ + remainingAmount]],
                        ev)
            ELSE Locked("none",
                   [s EXCEPT !.userLockedTokens[user] =
                       [@ EXCEPT !.totalAmount = amount,
                                 !.sevenMonthAmount = halfAmount,
                                 !.oneYearAmount = remainingAmount,
                                 !.lockTimestamp = t]],
                   ev)

lockTokensForUser(s, user, amount, t) ==
    IF user = ZERO THEN Locked("InvalidAddress", s, <<>>)
    ELSE IF amount = 0 THEN Locked("AmountMustBeGreaterThanZero", s, <<>>)
    ELSE LET userLock == s.userLockedTokens[user]
             halfAmount == amount \div 2
             remainingAmount == amount - halfAmount
             ev == <<Event("TokensLocked", <<user, amount, t>>)>>
         IN IF userLock.totalAmount > 0
            THEN IF userLock.totalAmount > UINT_MAX - amount
                 THEN Locked("OverflowDetected", s, <<>>)
                 ELSE IF userLock.sevenMonthAmount > UINT_MAX - halfAmount
                 THEN Locked("OverflowDetected", s, <<>>)
                 ELSE IF userLock.oneYearAmount > UINT_MAX - remainingAmount
                 THEN Locked("OverflowDetected", s, <<>>)
                 ELSE Locked("none",
                        [s EXCEPT !.userLockedTokens[user] =
                            [@ EXCEPT !.totalAmount = @ + amount,
                                      !.sevenMonthAmount = @ + halfAmount,
                                      !.oneYearAmount = @ + remainingAmount]],
                        ev)
            ELSE Locked("none",
                   [s EXCEPT !.userLockedTokens[user] =
                       [@ EXCEPT !.totalAmount = amount,
                                 !.sevenMonthAmount = halfAmount,
                                 !.oneYearAmount = amount - halfAmount,
                                 !.lockTimestamp = t]],
                   ev)

\* --------------------------------------------------------- repricing loop
\* mutant of Checkpoint: the new increment is stored but not added to threshold
Checkpoint_noIncrement(r, price, increment) ==
    IF r.err # "none" \/ r.st.tokenPrice # price THEN r
    ELSE IF r.st.threshold < r.st.incrementThreshold THEN Locked(PANIC, r.st, r.events)
    ELSE LET s1 == [r.st EXCEPT !.threshold = @ - r.st.incrementThreshold,
                                !.incrementThreshold = increment]
         IN Locked("none", s1,
                   Append(r.events,
                          Event("PriceThresholdUpdated", <<s1.threshold, s1.tokenPrice>>)))

\* one "if (tokenPrice == price)" block of the loop body
Checkpoint(r, price, increment) ==
    IF r.err # "none" \/ r.st.tokenPrice # price THEN r
    ELSE IF r.st.threshold < r.st.incrementThreshold THEN Locked(PANIC, r.st, r.events)
    ELSE IF r.st.threshold - r.st.incrementThreshold + increment > UINT_MAX
    THEN Locked(PANIC, r.st, r.events)
    ELSE LET s1 == [r.st EXCEPT !.threshold = @ - r.st.incrementThreshold + increment,
                                !.incrementThreshold = increment]
         IN Locked("none", s1,
                   Append(r.events,
                          Event("PriceThresholdUpdated", <<s1.threshold, s1.tokenPrice>>)))

\* the condition of the while loop
RepriceGuard(s) == (s.totalUsdGathered \div USD_DIVISOR) >= s.threshold

\* one iteration of the loop: the price step, then the three checkpoint blocks
RepriceBody(r) ==
    IF r.st.tokenPrice + PRICE_STEP > UINT_MAX
       \/ r.st.threshold + r.st.incrementThreshold > UINT_MAX
    THEN Locked(PANIC, r.st, r.events)
    ELSE LET s1 == [r.st EXCEPT !.tokenPrice = @ + PRICE_STEP,
                                !.threshold = @ + r.st.incrementThreshold]
             r1 == Locked("none", s1,
                          Append(r.events,
                                 Event("PriceThresholdUpdated",
                                       <<s1.threshold, s1.tokenPrice>>)))
         IN Checkpoint(Checkpoint(Checkpoint(r1,
                CHECKPOINT_1, INCREMENT_1),
                CHECKPOINT_2, INCREMENT_2),
                CHECKPOINT_3, INCREMENT_3)

RECURSIVE Reprice(_)
Reprice(r) ==
    IF r.err # "none" THEN r
    ELSE IF RepriceGuard(r.st) THEN Reprice(RepriceBody(r))
    ELSE r

\* ------------------------------------------------------------- handlers
\* Each handler is the function of the entry state s, msg.sender, the
\* arguments and block.timestamp t that the Solidity function computes.

\* no initialize step grants DEFAULT_ADMIN_ROLE, the admin of both roles
DefaultAdmins == {}

RELEASER_ROLE == "RELEASER_ROLE"
WALLET_SUPPLIER_ROLE == "WALLET_SUPPLIER_ROLE"

\* AccessControl's grantRole / revokeRole, inherited as external functions
grantRole_tx(s, caller, role, account) ==
    IF caller \notin DefaultAdmins THEN Revert(UNAUTHORIZED_ROLE, s, FALSE)
    ELSE IF role = RELEASER_ROLE
    THEN Ok([s EXCEPT !.releasers = @ \cup {account}], ZERO, 0,
            <<Event("RoleGranted", <<role, account, caller>>)>>)
    ELSE Ok([s EXCEPT !.walletSuppliers = @ \cup {account}], ZERO, 0,
            <<Event("RoleGranted", <<role, account, caller>>)>>)

revokeRole_tx(s, caller, role, account) ==
    IF caller \notin DefaultAdmins THEN Revert(UNAUTHORIZED_ROLE, s, FALSE)
    ELSE IF role = RELEASER_ROLE
    THEN Ok([s EXCEPT !.releasers = @ \ {account}], ZERO, 0,
            <<Event("RoleRevoked", <<role, account, caller>>)>>)
    ELSE Ok([s EXCEPT !.walletSuppliers = @ \ {account}], ZERO, 0,
            <<Event("RoleRevoked", <<role, account, caller>>)>>)

setWalletSupplier_tx(s, caller, walletSupplier) ==
    IF caller # OWNER THEN Revert(UNAUTHORIZED_OWNER, s, FALSE)
    ELSE IF walletSupplier = ZERO THEN Revert("InvalidAddress", s, FALSE)
    ELSE Ok([s EXCEPT !.walletSuppliers = @ \cup {walletSupplier}], ZERO, 0,
            IF walletSupplier \in s.walletSuppliers THEN <<>>
            ELSE <<Event("RoleGranted", <<WALLET_SUPPLIER_ROLE, walletSupplier, caller>>)>>)

setWalletAddresses_tx(s, caller, btcAddress_, ethAddress_, solAddress_) ==
    IF caller \notin s.walletSuppliers THEN Revert(UNAUTHORIZED_ROLE, s, FALSE)
    ELSE IF ethAddress_ = ZERO THEN Revert("InvalidWalletAddress", s, FALSE)
    ELSE IF btcAddress_ = "" THEN Revert("InvalidWalletAddress", s, FALSE)
    ELSE IF solAddress_ = "" THEN Revert("InvalidWalletAddress", s, FALSE)
    ELSE Ok([s EXCEPT !.btcAddress = btcAddress_, !.ethAddress = ethAddress_,
                      !.solAddress = solAddress_], ZERO, 0, <<>>)

setTokenPrice_tx(s, caller, newTokenPrice) ==
    IF caller \notin s.releasers THEN Revert(UNAUTHORIZED_ROLE, s, FALSE)
    ELSE IF newTokenPrice = 0 THEN Revert("TokenPriceMustBeGreaterThanZero", s, FALSE)
    ELSE Ok([s EXCEPT !.tokenPrice = newTokenPrice], ZERO, 0,
            <<Event("TokenPriceUpdated", <<s.tokenPrice, newTokenPrice>>)>>)

setDCOEndTime_tx(s, caller, newDCOEndTime) ==
    IF caller # OWNER THEN Revert(UNAUTHORIZED_OWNER, s, FALSE)
    ELSE LET s1 == [s EXCEPT !.DCO_END_TIME = newDCOEndTime]
         IN Ok(s1, ZERO, 0,
               <<Event("DCOEndTimeUpdated", <<s1.DCO_END_TIME, newDCOEndTime>>)>>)

injectSupply_tx(s, caller, amount) ==
    IF caller # OWNER THEN Revert(UNAUTHORIZED_OWNER, s, FALSE)
    ELSE IF amount = 0 THEN Revert("AmountMustBeGreaterThanZero", s, FALSE)
    ELSE IF amount > s.ownerTokens THEN Revert(ERC20_BALANCE, s, FALSE)
    ELSE LET s1 == [s EXCEPT !.ownerTokens = @ - amount, !.balance = @ + amount]
         IN Ok(s1, ZERO, 0, <<Event("TokensInjected", <<amount, s1.balance>>)>>)

addReleaser_tx(s, caller, releaser) ==
    IF caller # OWNER THEN Revert(UNAUTHORIZED_OWNER, s, FALSE)
    ELSE Ok([s EXCEPT !.releasers = @ \cup {releaser}], ZERO, 0,
            (IF releaser \in s.releasers THEN <<>>
             ELSE <<Event("RoleGranted", <<RELEASER_ROLE, releaser, caller>>)>>)
            \o <<Event("ReleaserAdded", <<releaser>>)>>)

removeReleaser_tx(s, caller, releaser) ==
    IF caller # OWNER THEN Revert(UNAUTHORIZED_OWNER, s, FALSE)
    ELSE Ok([s EXCEPT !.releasers = @ \ {releaser}], ZERO, 0,
            (IF releaser \in s.releasers
             THEN <<Event("RoleRevoked", <<RELEASER_ROLE, releaser, caller>>)>>
             ELSE <<>>)
            \o <<Event("ReleaserRemoved", <<releaser>>)>>)

releaseZKTC_tx(s, caller, amount, buyer, donationAmount, t) ==
    IF caller \notin s.releasers THEN Revert(UNAUTHORIZED_ROLE, s, FALSE)
    ELSE IF t > s.DCO_END_TIME THEN Revert("DCONotActive", s, FALSE)
    ELSE IF amount = 0 /\ donationAmount = 0
    THEN Revert("AmountMustBeGreaterThanZero", s, FALSE)
    ELSE IF buyer = ZERO THEN Revert("InvalidAddress", s, FALSE)
    ELSE IF amount * SCALE > UINT_MAX \/ donationAmount * SCALE > UINT_MAX
    THEN Revert(PANIC, s, FALSE)
    ELSE IF s.tokenPrice = 0 THEN Revert("Panic(0x12)", s, FALSE)
    ELSE
    LET tokensToBuy == TokensFor(s, amount)
        donation == TokensFor(s, donationAmount)
    IN
    IF s.balance = 0 THEN Revert("NoTokensRemaining", s, FALSE)
    ELSE IF getAvailableForWithdrawal(s) < 0 THEN Revert(PANIC, s, FALSE)
    ELSE IF getAvailableForWithdrawal(s) < tokensToBuy + donation
    THEN Revert("InsufficientTokens", s, FALSE)
    ELSE IF s.tokenSold + tokensToBuy + donation > UINT_MAX THEN Revert(PANIC, s, FALSE)
    ELSE IF s.totalUsdGathered + amount + donationAmount > UINT_MAX
    THEN Revert(PANIC, s, TRUE)
    ELSE
    LET s1 == [s EXCEPT !.tokenSold = @ + tokensToBuy + donation,
                        !.totalUsdGathered = @ + amount + donationAmount]
        r2 == Reprice(Locked("none", s1, <<>>))
        r3 == IF r2.err = "none" /\ tokensToBuy > 0
              THEN LET lk == lockTokensForUser(r2.st, buyer, tokensToBuy, t)
                   IN Locked(lk.err, lk.st,
                             IF lk.err = "none"
                             THEN r2.events \o lk.events
                                  \o <<Event("TokensReleased", <<buyer, tokensToBuy, t>>)>>
                             ELSE <<>>)
              ELSE r2
    IN
    IF r3.err # "none" THEN Revert(r3.err, s, TRUE)
    ELSE IF donation > 0
    THEN IF r3.st.totalDonations + donation > UINT_MAX THEN Revert(PANIC, s, TRUE)
         ELSE Ok([r3.st EXCEPT !.totalDonations = @ + donation], ZERO, 0,
                 Append(r3.events, Event("DonationMade", <<buyer, donation, t>>)))
    ELSE Ok(r3.st, ZERO, 0, r3.events)

updatePriceThresholds_tx(s, caller, incrementThreshold_) ==
    IF caller \notin s.releasers THEN Revert(UNAUTHORIZED_ROLE, s, FALSE)
    ELSE IF incrementThreshold_ = 0 THEN Revert("InvalidIncrementThreshold", s, FALSE)
    ELSE Ok([s EXCEPT !.incrementThreshold = incrementThreshold_], ZERO, 0, <<>>)

ZCW == "zcw"

DonateToZCW_tx(s, caller, t) ==
    IF caller \notin s.releasers THEN Revert(UNAUTHORIZED_ROLE, s, FALSE)
    ELSE IF s.totalDonations = 0 THEN Revert("NoDonationsMade", s, FALSE)
    ELSE IF ~CanTransfer(s, s.totalDonations) THEN Revert(ERC20_BALANCE, s, FALSE)
    ELSE LET s1 == Transfer(s, ZCW, s.totalDonations)
             s2 == [s1 EXCEPT !.totalDonations = 0]
         IN Ok(s2, ZCW, s.totalDonations,
               <<Event("ZCWDonated", <<s2.totalDonations, t>>)>>)

\* mutant of UpdateAllocations_tx: the replaced lock starts with nothing claimed
UpdateAllocations_resetsClaimed(s, caller, user, amount, t) ==
    IF caller \notin s.releasers THEN Revert(UNAUTHORIZED_ROLE, s, FALSE)
    ELSE IF amount * SCALE > UINT_MAX THEN Revert(PANIC, s, TRUE)
    ELSE IF user = ZERO THEN Revert("InvalidAddress", s, TRUE)
    ELSE LET s1 == [s EXCEPT !.userLockedTokens[user].totalAmount = 0,
                             !.userLockedTokens[user].sevenMonthClaimed = 0,
                             !.userLockedTokens[user].oneYearClaimed = 0]
             lk == lockTokensForUser(s1, user, amount * SCALE, t)
         IN IF lk.err # "none" THEN Revert(lk.err, s, TRUE)
            ELSE Ok(lk.st, ZERO, 0, lk.events)

UpdateAllocations_tx(s, caller, user, amount, t) ==
    IF caller \notin s.releasers THEN Revert(UNAUTHORIZED_ROLE, s, FALSE)
    ELSE IF amount * SCALE > UINT_MAX THEN Revert(PANIC, s, TRUE)
    ELSE IF user = ZERO THEN Revert("InvalidAddress", s, TRUE)
    ELSE LET s1 == [s EXCEPT !.userLockedTokens[user].totalAmount = 0]
             lk == lockTokensForUser(s1, user, amount * SCALE, t)
         IN IF lk.err # "none" THEN Revert(lk.err, s, TRUE)
            ELSE Ok(lk.st, ZERO, 0, lk.events)

updateThreshold_tx(s, caller, threshold_) ==
    IF caller \notin s.releasers THEN Revert(UNAUTHORIZED_ROLE, s, FALSE)
    ELSE Ok([s EXCEPT !.threshold = threshold_], ZERO, 0, <<>>)

updateUsdtGathered_tx(s, caller, newUsdtGathered) ==
    IF caller \notin s.releasers THEN Revert(UNAUTHORIZED_ROLE, s, FALSE)
    ELSE Ok([s EXCEPT !.totalUsdGathered = newUsdtGathered], ZERO, 0, <<>>)

\* the claim of one tranche inside withdraw: w is [err, lock, total]
ClaimSevenMonth(w) ==
    IF w.lock.sevenMonthAmount < w.lock.sevenMonthClaimed
    THEN [w EXCEPT !.err = PANIC]
    ELSE LET sevenMonthAvailable == w.lock.sevenMonthAmount - w.lock.sevenMonthClaimed
         IN IF sevenMonthAvailable > 0
            THEN [w EXCEPT !.total = @ + sevenMonthAvailable,
                           !.lock.sevenMonthClaimed = w.lock.sevenMonthAmount,
                           !.wrote = TRUE]
            ELSE w

\* mutant of ClaimOneYear: the tranche is paid but not marked as claimed
ClaimOneYear_unmarked(w) ==
    IF w.lock.oneYearAmount < w.lock.oneYearClaimed
    THEN [w EXCEPT !.err = PANIC]
    ELSE [w EXCEPT !.total = @ + (w.lock.oneYearAmount - w.lock.oneYearClaimed)]

ClaimOneYear(w) ==
    IF w.lock.oneYearAmount < w.lock.oneYearClaimed
    THEN [w EXCEPT !.err = PANIC]
    ELSE LET oneYearAvailable == w.lock.oneYearAmount - w.lock.oneYearClaimed
         IN IF oneYearAvailable > 0
            THEN [w EXCEPT !.total = @ + oneYearAvailable,
                           !.lock.oneYearClaimed = w.lock.oneYearAmount,
                           !.wrote = TRUE]
            ELSE w

\* mutant of withdraw_pay: the revert leaves the claimed counters written
withdraw_pay_keepsWrites(s, s2, user, totalWithdrawable, currentTime, wrote) ==
    IF totalWithdrawable > s2.balance THEN Revert("InsufficientBalance", s2, wrote)
    ELSE Ok(Transfer(s2, user, totalWithdrawable), user, totalWithdrawable,
            <<Event("TokensWithdrawn",
                    <<user, totalWithdrawable,
                      IF currentTime >= s2.userLockedTokens[user].lockTimestamp + s2.ONE_YEAR
                      THEN 2 ELSE 1>>)>>)

\* the end of withdraw, from the balance check on: s is the entry state, s2 the
\* state with the claimed counters already written
withdraw_pay(s, s2, user, totalWithdrawable, currentTime, wrote) ==
    IF totalWithdrawable > s2.balance THEN Revert("InsufficientBalance", s, wrote)
    ELSE Ok(Transfer(s2, user, totalWithdrawable), user, totalWithdrawable,
            <<Event("TokensWithdrawn",
                    <<user, totalWithdrawable,
                      IF currentTime >= s2.userLockedTokens[user].lockTimestamp + s2.ONE_YEAR
                      THEN 2 ELSE 1>>)>>)

withdraw_tx(s, user, t) ==
    LET userLock == s.userLockedTokens[user]
        currentTime == t
        w0 == [err |-> "none", lock |-> userLock, total |-> 0, wrote |-> FALSE]
        w1 == IF currentTime >= s.SEVEN_MONTHS THEN ClaimSevenMonth(w0) ELSE w0
        w2 == IF w1.err = "none" /\ currentTime >= s.ONE_YEAR THEN ClaimOneYear(w1) ELSE w1
        totalWithdrawable == w2.total
        s2 == [s EXCEPT !.userLockedTokens[user] = w2.lock]
    IN
    IF userLock.totalAmount = 0 THEN Revert("NoTokensToWithdraw", s, FALSE)
    ELSE IF w2.err # "none" THEN Revert(w2.err, s, w2.wrote)
    ELSE IF totalWithdrawable = 0 /\ currentTime < s.SEVEN_MONTHS
    THEN Revert("SevenMonthReleaseNotAvailable", s, w2.wrote)
    ELSE IF totalWithdrawable = 0 /\ currentTime < s.ONE_YEAR
    THEN Revert("OneYearReleaseNotAvailable", s, w2.wrote)
    ELSE withdraw_pay(s, s2, user, totalWithdrawable, currentTime, w2.wrote)

\* the read-only accessors of a user's lock; both count the release times
\* from the lock's own timestamp
Withdrawable(err, withdrawableAmount) ==
    [err |-> err, withdrawableAmount |-> withdrawableAmount]

getWithdrawableAmount(s, user, t) ==
    LET userLock == s.userLockedTokens[user]
        currentTime == t
        sevenMonthDue == currentTime >= userLock.lockTimestamp + s.SEVEN_MONTHS
        oneYearDue == currentTime >= userLock.lockTimestamp + s.ONE_YEAR
    IN
    IF user = ZERO THEN Withdrawable("InvalidAddress", 0)
    ELSE IF userLock.totalAmount = 0 THEN Withdrawable("none", 0)
    ELSE IF sevenMonthDue /\ userLock.sevenMonthClaimed > userLock.sevenMonthAmount
    THEN Withdrawable("UnderflowDetected", 0)
    ELSE IF oneYearDue /\ userLock.oneYearClaimed > userLock.oneYearAmount
    THEN Withdrawable("UnderflowDetected", 0)
    ELSE Withdrawable("none",
             (IF sevenMonthDue
              THEN userLock.sevenMonthAmount - userLock.sevenMonthClaimed ELSE 0)
             + (IF oneYearDue
                THEN userLock.oneYearAmount - userLock.oneYearClaimed ELSE 0))

TimeUntil(err, timeUntilSevenMonth, timeUntilOneYear) ==
    [err |-> err, timeUntilSevenMonth |-> timeUntilSevenMonth,
     timeUntilOneYear |-> timeUntilOneYear]

getTimeUntilRelease(s, user, t) ==
    LET userLock == s.userLockedTokens[user]
        currentTime == t
        sevenMonthTime == userLock.lockTimestamp + s.SEVEN_MONTHS
        oneYearTime == userLock.lockTimestamp + s.ONE_YEAR
    IN
    IF user = ZERO THEN TimeUntil("InvalidAddress", 0, 0)
    ELSE IF userLock.totalAmount = 0 THEN TimeUntil("none", 0, 0)
    ELSE TimeUntil("none",
                   IF currentTime > sevenMonthTime THEN 0 ELSE sevenMonthTime - currentTime,
                   IF currentTime > oneYearTime THEN 0 ELSE oneYearTime - currentTime)

withdrawParticularZKTC_tx(s, caller, amount, t) ==
    IF caller # OWNER THEN Revert(UNAUTHORIZED_OWNER, s, FALSE)
    ELSE IF t < s.DCO_END_TIME THEN Revert("CannotWithdrawBeforeGlobalRelease", s, FALSE)
    ELSE IF amount = 0 THEN Revert("AmountMustBeGreaterThanZero", s, FALSE)
    ELSE IF amount > UINT_MAX \div 2 THEN Revert("InvalidAmount", s, FALSE)
    ELSE IF getAvailableForWithdrawal(s) < 0 THEN Revert(PANIC, s, FALSE)
    ELSE IF amount > getAvailableForWithdrawal(s) THEN Revert("InsufficientBalance", s, FALSE)
    ELSE IF amount > s.balance THEN Revert("InsufficientBalance", s, FALSE)
    ELSE Ok(Transfer(s, caller, amount), caller, amount,
            <<Event("TokensWithdrawn", <<caller, amount>>)>>)

withdrawAllZKTC_tx(s, caller, t) ==
    IF caller # OWNER THEN Revert(UNAUTHORIZED_OWNER, s, FALSE)
    ELSE IF t < s.DCO_END_TIME THEN Revert("CannotWithdrawBeforeGlobalRelease", s, FALSE)
    ELSE IF getAvailableForWithdrawal(s) < 0 THEN Revert(PANIC, s, FALSE)
    ELSE LET availableBalance == getAvailableForWithdrawal(s)
         IN IF availableBalance = 0 THEN Revert("NoBalanceToWithdraw", s, FALSE)
            ELSE IF availableBalance > s.balance THEN Revert("InsufficientBalance", s, FALSE)
            ELSE Ok(Transfer(s, caller, availableBalance), caller, availableBalance,
                    <<Event("AllTokensWithdrawn", <<caller, availableBalance>>)>>)

setTimePeriods_tx(s, caller, sevenMonthsTime_, oneYearTime_) ==
    IF caller \notin s.releasers THEN Revert(UNAUTHORIZED_ROLE, s, FALSE)
    ELSE Ok([s EXCEPT !.SEVEN_MONTHS = sevenMonthsTime_, !.ONE_YEAR = oneYearTime_],
            ZERO, 0, <<Event("TimePeriodsSet", <<sevenMonthsTime_, oneYearTime_>>)>>)

\* ------------------------------------------------------ reentrancy guard
\* the functions that carry the nonReentrant modifier
GuardedOps == {"releaseZKTC", "DonateToZCW", "withdraw",
               "withdrawParticularZKTC", "withdrawAllZKTC"}

REENTRANT == "ReentrancyGuardReentrantCall"

\* the state-changing external functions
Ops == {"setWalletSupplier", "setWalletAddresses", "setTokenPrice", "setDCOEndTime", "injectSupply", "addReleaser",
        "removeReleaser", "releaseZKTC", "updatePriceThresholds", "DonateToZCW",
        "UpdateAllocations", "updateThreshold", "updateUsdtGathered", "withdraw",
        "withdrawParticularZKTC", "withdrawAllZKTC", "setTimePeriods"}

\* the argument lists of a function, over the inputs above
ArgsOf(op) ==
    CASE op = "setWalletSupplier" -> {<<w>> : w \in WalletSupplierInputs}
      [] op = "setWalletAddresses" -> WalletInputs
      [] op = "setTokenPrice" -> {<<p>> : p \in PriceInputs}
      [] op = "setDCOEndTime" -> {<<e>> : e \in EndTimeInputs}
      [] op = "injectSupply" -> {<<a>> : a \in InjectAmounts}
      [] op \in {"addReleaser", "removeReleaser"} -> {<<r>> : r \in Releasers}
      [] op = "releaseZKTC" -> UsdAmounts \X Buyers \X UsdAmounts
      [] op = "updatePriceThresholds" -> {<<i>> : i \in IncrementInputs}
      [] op = "UpdateAllocations" -> Buyers \X AllocationInputs
      [] op = "updateThreshold" -> {<<th>> : th \in ThresholdInputs}
      [] op = "updateUsdtGathered" -> {<<g>> : g \in UsdGatheredInputs}
      [] op = "withdrawParticularZKTC" -> {<<a>> : a \in OwnerWithdrawInputs}
      [] op = "setTimePeriods" -> TimePeriodInputs
      [] OTHER -> {<<>>}

\* every call of the function op
CallsOf(op) == {[op |-> op, caller |-> c, args |-> a] : c \in Addr, a \in ArgsOf(op)}

\* the functions that move tokens
TransferOps == {"injectSupply", "DonateToZCW", "withdraw",
                "withdrawParticularZKTC", "withdrawAllZKTC"}

\* the function a call runs, on state s at time t
Dispatch(s, call, t) ==
    LET c == call.caller
        a == call.args
    IN CASE call.op = "setWalletSupplier" -> setWalletSupplier_tx(s, c, a[1])
         [] call.op = "setWalletAddresses" -> setWalletAddresses_tx(s, c, a[1], a[2], a[3])
         [] call.op = "setTokenPrice" -> setTokenPrice_tx(s, c, a[1])
         [] call.op = "setDCOEndTime" -> setDCOEndTime_tx(s, c, a[1])
         [] call.op = "injectSupply" -> injectSupply_tx(s, c, a[1])
         [] call.op = "addReleaser" -> addReleaser_tx(s, c, a[1])
         [] call.op = "removeReleaser" -> removeReleaser_tx(s, c, a[1])
         [] call.op = "releaseZKTC" -> releaseZKTC_tx(s, c, a[1], a[2], a[3], t)
         [] call.op = "updatePriceThresholds" -> updatePriceThresholds_tx(s, c, a[1])
         [] call.op = "DonateToZCW" -> DonateToZCW_tx(s, c, t)
         [] call.op = "UpdateAllocations" -> UpdateAllocations_tx(s, c, a[1], a[2], t)
         [] call.op = "updateThreshold" -> updateThreshold_tx(s, c, a[1])
         [] call.op = "updateUsdtGathered" -> updateUsdtGathered_tx(s, c, a[1])
         [] call.op = "withdraw" -> withdraw_tx(s, c, t)
         [] call.op = "withdrawParticularZKTC" -> withdrawParticularZKTC_tx(s, c, a[1], t)
         [] call.op = "withdrawAllZKTC" -> withdrawAllZKTC_tx(s, c, t)
         [] call.op = "setTimePeriods" -> setTimePeriods_tx(s, c, a[1], a[2])

\* the ledger as a callback sees it while the token moves the tokens of an
\* outer call: every storage write the outer function makes before its
\* safeTransfer / safeTransferFrom is done, the ones after it are not (in
\* DonateToZCW totalDonations is still to be reset)
TransferPoint(s, outer, t) ==
    IF outer.op = "DonateToZCW" THEN Transfer(s, ZCW, s.totalDonations)
    ELSE Dispatch(s, outer, t).st

\* the calls of op that reach their token transfer from state s
Transferring(s, op, t) ==
    {outer \in CallsOf(op) : Dispatch(s, outer, t).err = "none"}

\* a call made from inside the token transfer of the outer call: a function
\* with nonReentrant reverts when the outer function holds the guard
Callback(s, outer, inner, t) ==
    IF outer.op \in GuardedOps /\ inner.op \in GuardedOps
    THEN Revert(REENTRANT, TransferPoint(s, outer, t), FALSE)
    ELSE Dispatch(TransferPoint(s, outer, t), inner, t)

\* ---------------------------------------------------- Safe front-end
\* an entry of pendingTransactions; NotListed stands for a hash the fetched
\* list does not hold (its confirmationsRequired is absent)
NotListed == [listed |-> FALSE, confirmations |-> {},
              confirmationsRequired |-> 0, isExecuted |-> FALSE]

\* apiKit.getPendingTransactions: the proposed, not yet executed transactions
\* with the confirmations the service holds at the time of the request
getPendingTransactions(conf, exec) ==
    [h \in SafeTxHashes |->
        IF conf[h] # {} /\ h \notin exec
        THEN [listed |-> TRUE, confirmations |-> conf[h],
              confirmationsRequired |-> SAFE_THRESHOLD, isExecuted |-> FALSE]
        ELSE NotListed]

\* pendingTx.confirmationsRequired || 2
requiredConfirmations(pendingTx) ==
    IF pendingTx.confirmationsRequired # 0 THEN pendingTx.confirmationsRequired ELSE 2

\* safeSdk.isValidTransaction: the Safe cannot execute a hash a second time
isValidTransaction(h, exec) == h \notin exec

\* the branch of signPendingTransaction that executes: it counts the
\* confirmations of the pendingTx object the button was rendered with
Executes(pendingTx, h, exec) ==
    /\ Cardinality(pendingTx.confirmations) >= requiredConfirmations(pendingTx)
    /\ ~pendingTx.isExecuted
    /\ isValidTransaction(h, exec)

\* one run of signPendingTransaction(pendingTx) by the connected signer: the
\* signature is confirmed with the service, then the transaction is executed
\* if the branch above is taken
signPendingTransaction_run(conf, exec, pendingTx, h, signer) ==
    [confirmations |-> [conf EXCEPT ![h] = @ \cup {signer}],
     isExecuted |-> IF Executes(pendingTx, h, exec) THEN exec \cup {h} ELSE exec]

\* -------------------------------------------------------------- actions
Idle == [op |-> "none", caller |-> ZERO, args |-> <<>>,
         to |-> ZERO, sent |-> 0, events |-> <<>>]

\* a transaction that returns: the ledger becomes the state the handler leaves
\* and the call is recorded in last. A call that reverts is no step at all: the
\* ledger stays as it was.
Call(op, caller, args, r) ==
    /\ txCount < MaxTx
    /\ r.err = "none"
    /\ txCount' = txCount + 1
    /\ tokenPrice' = r.st.tokenPrice
    /\ tokenSold' = r.st.tokenSold
    /\ DCO_END_TIME' = r.st.DCO_END_TIME
    /\ SEVEN_MONTHS' = r.st.SEVEN_MONTHS
    /\ ONE_YEAR' = r.st.ONE_YEAR
    /\ totalDonations' = r.st.totalDonations
    /\ totalUsdGathered' = r.st.totalUsdGathered
    /\ incrementThreshold' = r.st.incrementThreshold
    /\ threshold' = r.st.threshold
    /\ userLockedTokens' = r.st.userLockedTokens
    /\ releasers' = r.st.releasers
    /\ walletSuppliers' = r.st.walletSuppliers
    /\ btcAddress' = r.st.btcAddress
    /\ ethAddress' = r.st.ethAddress
    /\ solAddress' = r.st.solAddress
    /\ balance' = r.st.balance
    /\ ownerTokens' = r.st.ownerTokens
    /\ last' = [op |-> op, caller |-> caller, args |-> args,
                to |-> r.to, sent |-> r.sent, events |-> r.events]
    /\ UNCHANGED <<now, appVars>>

Init ==
    /\ now = 0
    /\ tokenPrice = INIT_PRICE
    /\ tokenSold = 0
    /\ DCO_END_TIME = 0 + DCO_DAYS
    /\ SEVEN_MONTHS = 0 + SEVEN_MONTH_DAYS
    /\ ONE_YEAR = 0 + ONE_YEAR_DAYS
    /\ totalDonations = 0
    /\ totalUsdGathered = 0
    /\ incrementThreshold = INIT_INCREMENT
    /\ threshold = INIT_THRESHOLD
    /\ userLockedTokens = [a \in Addr |-> NoLock]
    /\ releasers = {OWNER}
    /\ walletSuppliers = {OWNER}
    /\ btcAddress = ""
    /\ ethAddress = ZERO
    /\ solAddress = ""
    /\ balance = 0
    /\ ownerTokens = OwnerSupply
    /\ txCount = 0
    /\ last = Idle
    /\ confirmations = [h \in SafeTxHashes |-> {}]
    /\ isExecuted = {}
    /\ pendingTransactions = [h \in SafeTxHashes |-> NotListed]

\* block.timestamp moves forward between transactions
Tick ==
    /\ \E t \in TimePoints : t > now /\ now' = t
    /\ UNCHANGED <<ledgerVars, txCount, last, appVars>>

setWalletSupplier ==
    \E caller \in Addr, w \in WalletSupplierInputs :
        Call("setWalletSupplier", caller, <<w>>, setWalletSupplier_tx(Ledger, caller, w))

setWalletAddresses ==
    \E caller \in Addr, w \in WalletInputs :
        Call("setWalletAddresses", caller, w,
             setWalletAddresses_tx(Ledger, caller, w[1], w[2], w[3]))

setTokenPrice ==
    \E caller \in Addr, p \in PriceInputs :
        Call("setTokenPrice", caller, <<p>>, setTokenPrice_tx(Ledger, caller, p))

setDCOEndTime ==
    \E caller \in Addr, e \in EndTimeInputs :
        Call("setDCOEndTime", caller, <<e>>, setDCOEndTime_tx(Ledger, caller, e))

injectSupply ==
    \E caller \in Addr, a \in InjectAmounts :
        Call("injectSupply", caller, <<a>>, injectSupply_tx(Ledger, caller, a))

addReleaser ==
    \E caller \in Addr, r \in Releasers :
        Call("addReleaser", caller, <<r>>, addReleaser_tx(Ledger, caller, r))

removeReleaser ==
    \E caller \in Addr, r \in Releasers :
        Call("removeReleaser", caller, <<r>>, removeReleaser_tx(Ledger, caller, r))

releaseZKTC ==
    \E caller \in Addr, a \in UsdAmounts, b \in Buyers, d \in UsdAmounts :
        /\ totalUsdGathered + a + d <= MaxUsdGathered
        /\ Call("releaseZKTC", caller, <<a, b, d>>,
             releaseZKTC_tx(Ledger, caller, a, b, d, now))

updatePriceThresholds ==
    \E caller \in Addr, i \in IncrementInputs :
        Call("updatePriceThresholds", caller, <<i>>,
             updatePriceThresholds_tx(Ledger, caller, i))

DonateToZCW ==
    \E caller \in Addr :
        Call("DonateToZCW", caller, <<>>, DonateToZCW_tx(Ledger, caller, now))

UpdateAllocations ==
    \E caller \in Addr, u \in Buyers, a \in AllocationInputs :
        Call("UpdateAllocations", caller, <<u, a>>,
             UpdateAllocations_tx(Ledger, caller, u, a, now))

updateThreshold ==
    \E caller \in Addr, th \in ThresholdInputs :
        Call("updateThreshold", caller, <<th>>, updateThreshold_tx(Ledger, caller, th))

updateUsdtGathered ==
    \E caller \in Addr, g \in UsdGatheredInputs :
        Call("updateUsdtGathered", caller, <<g>>,
             updateUsdtGathered_tx(Ledger, caller, g))

withdraw ==
    \E caller \in Addr :
        Call("withdraw", caller, <<>>, withdraw_tx(Ledger, caller, now))

withdrawParticularZKTC ==
    \E caller \in Addr, a \in OwnerWithdrawInputs :
        Call("withdrawParticularZKTC", caller, <<a>>,
             withdrawParticularZKTC_tx(Ledger, caller, a, now))

withdrawAllZKTC ==
    \E caller \in Addr :
        Call("withdrawAllZKTC", caller, <<>>, withdrawAllZKTC_tx(Ledger, caller, now))

setTimePeriods ==
    \E caller \in Addr, p \in TimePeriodInputs :
        Call("setTimePeriods", caller, <<p[1], p[2]>>,
             setTimePeriods_tx(Ledger, caller, p[1], p[2]))

Next ==
    \/ Tick
    \/ setWalletSupplier
    \/ setWalletAddresses
    \/ setTokenPrice
    \/ setDCOEndTime
    \/ injectSupply
    \/ addReleaser
    \/ removeReleaser
    \/ releaseZKTC
    \/ updatePriceThresholds
    \/ DonateToZCW
    \/ UpdateAllocations
    \/ updateThreshold
    \/ updateUsdtGathered
    \/ withdraw
    \/ withdrawParticularZKTC
    \/ withdrawAllZKTC
    \/ setTimePeriods

Spec == Init /\ [][Next]_vars

\* the front-end on its own: owners propose, refresh the list and press
\* Sign & Confirm, the ledger untouched
createSafeTransaction ==
    \E signer \in SafeOwners, h \in SafeTxHashes :
        /\ confirmations[h] = {}
        /\ confirmations' = [confirmations EXCEPT ![h] = {signer}]
        /\ UNCHANGED <<isExecuted, pendingTransactions, now, ledgerVars, txCount, last>>

fetchPendingTransactions ==
    /\ pendingTransactions' = getPendingTransactions(confirmations, isExecuted)
    /\ UNCHANGED <<confirmations, isExecuted, now, ledgerVars, txCount, last>>

signPendingTransaction ==
    \E signer \in SafeOwners, h \in SafeTxHashes :
        /\ pendingTransactions[h].listed
        /\ LET r == signPendingTransaction_run(confirmations, isExecuted,
                                                pendingTransactions[h], h, signer)
           IN  /\ confirmations' = r.confirmations
               /\ isExecuted' = r.isExecuted
        /\ UNCHANGED <<pendingTransactions, now, ledgerVars, txCount, last>>

AppNext ==
    \/ createSafeTransaction
    \/ fetchPendingTransactions
    \/ signPendingTransaction

AppSpec == Init /\ [][AppNext]_vars

\* ================================================================ claims

\* C1: in every reachable state tokenSold <= balance - totalDonations, i.e.
\* getAvailableForWithdrawal() is never negative.
C1_AvailableNeverNegative == tokenSold <= balance - totalDonations

\* C2: for every user, in every reachable state, sevenMonthClaimed <=
\* sevenMonthAmount and oneYearClaimed <= oneYearAmount.
C2_ClaimedWithinTranche ==
    \A u \in Addr :
        /\ userLockedTokens[u].sevenMonthClaimed <= userLockedTokens[u].sevenMonthAmount
        /\ userLockedTokens[u].oneYearClaimed <= userLockedTokens[u].oneYearAmount

\* C3: in no reachable state does a user's withdraw() compute a claimable
\* amount above the held balance: it never fails with InsufficientBalance.
C3_ClaimNeverInsufficientBalance ==
    \A u \in Addr : withdraw_tx(Ledger, u, now).err # "InsufficientBalance"

\* a step of the named external function (a transaction that returned)
Step(op) == txCount' # txCount /\ last'.op = op

\* the call leaves the ledger and the token balances as they were whenever it fails
FailsClean(r) == r.err # "none" => (r.st = Ledger /\ r.sent = 0 /\ r.events = <<>>)

\* C4: a failing releaseZKTC, withdraw, withdrawParticularZKTC, withdrawAllZKTC
\* or DonateToZCW leaves every ledger variable and the token balances exactly
\* as they were before the call.
C4_FailedCallChangesNothing ==
    \A caller \in Addr :
        /\ \A a \in UsdAmounts, b \in Buyers, d \in UsdAmounts :
               FailsClean(releaseZKTC_tx(Ledger, caller, a, b, d, now))
        /\ FailsClean(withdraw_tx(Ledger, caller, now))
        /\ \A a \in OwnerWithdrawInputs :
               FailsClean(withdrawParticularZKTC_tx(Ledger, caller, a, now))
        /\ FailsClean(withdrawAllZKTC_tx(Ledger, caller, now))
        /\ FailsClean(DonateToZCW_tx(Ledger, caller, now))

\* C4 witness: a withdraw() that fails on the balance check after it has
\* already written a claimed counter, next to a releaseZKTC that fails on supply
C4_Witness ==
    /\ \E u \in Users :
           /\ withdraw_tx(Ledger, u, now).err = "InsufficientBalance"
           /\ withdraw_tx(Ledger, u, now).wrote
    /\ \E a \in UsdAmounts, b \in Users :
           releaseZKTC_tx(Ledger, OWNER, a, b, 0, now).err = "InsufficientTokens"

\* C5: tokenSold never decreases, only a successful releaseZKTC changes it, and
\* each one adds floor(amount*SCALE/price) + floor(donation*SCALE/price) at the
\* price in force when the call started.
C5_TokenSoldByReleaseOnly ==
    [][/\ tokenSold' >= tokenSold
       /\ (tokenSold' # tokenSold => Step("releaseZKTC"))
       /\ (Step("releaseZKTC") =>
               tokenSold' = tokenSold
                            + ((last'.args[1] * SCALE) \div tokenPrice)
                            + ((last'.args[3] * SCALE) \div tokenPrice))]_vars

\* C5 witness: a releaseZKTC with a purchase and a donation that also repriced
C5_Witness ==
    /\ last.op = "releaseZKTC"
    /\ last.args[1] > 0 /\ last.args[3] > 0
    /\ last.events[1].name = "PriceThresholdUpdated"
    /\ tokenSold > 0

\* C6: whenever getQuote returns, tokensForPurchase + tokensForDonation is at
\* most the available balance, balance - totalDonations - tokenSold.
C6_QuoteWithinAvailable ==
    \A a \in UsdAmounts, d \in UsdAmounts :
        LET q == getQuote(Ledger, a, d)
        IN q.err = "none" =>
               q.tokensToReceive + q.donatedTokens
                   <= balance - totalDonations - tokenSold

\* C7: a successful DonateToZCW with totalDonations = d > 0 transfers exactly d
\* to ZCW, emits ZCWDonated with amount d and leaves totalDonations = 0; with
\* totalDonations = 0 the call fails with NoDonationsMade.
C7_DonateToZCW ==
    [][/\ (totalDonations = 0 =>
               \A c \in releasers :
                   DonateToZCW_tx(Ledger, c, now).err = "NoDonationsMade")
       /\ (Step("DonateToZCW") =>
               /\ totalDonations > 0
               /\ last'.to = ZCW
               /\ last'.sent = totalDonations
               /\ balance' = balance - totalDonations
               /\ totalDonations' = 0
               /\ last'.events = <<Event("ZCWDonated", <<totalDonations, now>>)>>)]_vars

FullyClaimed(u) ==
    /\ userLockedTokens[u].totalAmount > 0
    /\ userLockedTokens[u].sevenMonthClaimed = userLockedTokens[u].sevenMonthAmount
    /\ userLockedTokens[u].oneYearClaimed = userLockedTokens[u].oneYearAmount

\* C8: once both tranches of a user are fully claimed and now >= ONE_YEAR,
\* every further withdraw() by that user fails: no transfer, no event, no
\* state change.
C8_FullyClaimedWithdrawFails ==
    \A u \in Addr :
        (FullyClaimed(u) /\ now >= ONE_YEAR) =>
            withdraw_tx(Ledger, u, now).err # "none"

\* C9: a successful withdraw() pays the caller exactly the unclaimed part of
\* every tranche whose mark has been reached, sets the claimed counter of each
\* such tranche to the tranche amount and leaves the other tranche unchanged.
C9_WithdrawPaysReachedTranches ==
    [][Step("withdraw") =>
          LET u == last'.caller
              before == userLockedTokens[u]
              after == userLockedTokens'[u]
              seven == now >= SEVEN_MONTHS
              year == now >= ONE_YEAR
          IN /\ last'.to = u
             /\ last'.sent =
                    (IF seven THEN before.sevenMonthAmount - before.sevenMonthClaimed ELSE 0)
                    + (IF year THEN before.oneYearAmount - before.oneYearClaimed ELSE 0)
             /\ balance' = balance - last'.sent
             /\ after.sevenMonthClaimed =
                    IF seven THEN before.sevenMonthAmount ELSE before.sevenMonthClaimed
             /\ after.oneYearClaimed =
                    IF year THEN before.oneYearAmount ELSE before.oneYearClaimed
             /\ after.sevenMonthAmount = before.sevenMonthAmount
             /\ after.oneYearAmount = before.oneYearAmount]_vars

\* C9 witness: a withdraw() past both marks that paid both tranches
C9_Witness ==
    /\ last.op = "withdraw"
    /\ now >= SEVEN_MONTHS /\ now >= ONE_YEAR
    /\ last.sent > 0
    /\ LET lk == userLockedTokens[last.caller]
       IN /\ lk.sevenMonthAmount > 0 /\ lk.oneYearAmount > 0
          /\ last.sent = lk.sevenMonthAmount + lk.oneYearAmount
          /\ lk.sevenMonthClaimed = lk.sevenMonthAmount
          /\ lk.oneYearClaimed = lk.oneYearAmount

\* C10: whenever now < SEVEN_MONTHS, withdraw() by a user holding a lock fails
\* (with SevenMonthReleaseNotAvailable) and transfers nothing, in every
\* reachable configuration of the time marks: no withdraw() returns, and so
\* none pays, while now < SEVEN_MONTHS.
C10_NoWithdrawBeforeSevenMonths ==
    [][Step("withdraw") => now >= SEVEN_MONTHS]_vars

OwnerWithdrawal == Step("withdrawParticularZKTC") \/ Step("withdrawAllZKTC")

\* C11: withdrawParticularZKTC and withdrawAllZKTC fail, changing nothing, while
\* now < DCO_END_TIME; from DCO_END_TIME on, withdrawAllZKTC with a positive
\* available balance succeeds and transfers to the owner exactly
\* balance - totalDonations - tokenSold; after every successful owner
\* withdrawal balance >= totalDonations + tokenSold.
C11_OwnerWithdrawal ==
    [][/\ (now < DCO_END_TIME =>
               \A caller \in Addr :
                   /\ withdrawAllZKTC_tx(Ledger, caller, now).err # "none"
                   /\ FailsClean(withdrawAllZKTC_tx(Ledger, caller, now))
                   /\ \A a \in OwnerWithdrawInputs :
                          /\ withdrawParticularZKTC_tx(Ledger, caller, a, now).err # "none"
                          /\ FailsClean(withdrawParticularZKTC_tx(Ledger, caller, a, now)))
       /\ ((now >= DCO_END_TIME /\ balance - totalDonations - tokenSold > 0) =>
               LET r == withdrawAllZKTC_tx(Ledger, OWNER, now)
               IN /\ r.err = "none"
                  /\ r.to = OWNER
                  /\ r.sent = balance - totalDonations - tokenSold)
       /\ (OwnerWithdrawal =>
               /\ now >= DCO_END_TIME
               /\ last'.caller = OWNER /\ last'.to = OWNER
               /\ balance' = balance - last'.sent
               /\ ownerTokens' = ownerTokens + last'.sent
               /\ balance' >= totalDonations' + tokenSold')
       /\ (Step("withdrawAllZKTC") =>
               /\ last'.sent = balance - totalDonations - tokenSold
               /\ last'.sent > 0)
       /\ (Step("withdrawParticularZKTC") => last'.sent = last'.args[1])]_vars

\* C11 witness: a withdrawAllZKTC that paid the owner while sold tokens and
\* donations stayed behind in the contract
C11_Witness ==
    /\ last.op = "withdrawAllZKTC"
    /\ last.sent > 0
    /\ tokenSold > 0 /\ totalDonations > 0
    /\ balance = totalDonations + tokenSold

\* C12: tokenPrice is non-decreasing: no step of any external function takes
\* tokenPrice to a smaller value.
C12_TokenPriceNonDecreasing == [][tokenPrice' >= tokenPrice]_vars

\* the state in which releaseZKTC(a, ., d) enters its repricing loop
LoopEntry(a, d) ==
    Locked("none", [Ledger EXCEPT !.totalUsdGathered = @ + a + d], <<>>)

\* threshold at the start of every iteration of the loop run from r, and at its exit
RECURSIVE LoopThresholds(_)
LoopThresholds(r) ==
    IF r.err # "none" THEN <<>>
    ELSE IF RepriceGuard(r.st) THEN <<r.st.threshold>> \o LoopThresholds(RepriceBody(r))
    ELSE <<r.st.threshold>>

C14_UsdGatheredIsSumOfReleases ==
    [][/\ totalUsdGathered' >= totalUsdGathered
       /\ (Step("releaseZKTC") =>
               totalUsdGathered' = totalUsdGathered + last'.args[1] + last'.args[3])
       /\ (~Step("releaseZKTC") => totalUsdGathered' = totalUsdGathered)]_vars

Within1(x, y) == x - y <= 1 /\ y - x <= 1

\* releaseZKTC(a, u, 0) then releaseZKTC(b, u, 0), and releaseZKTC(a + b, u, 0),
\* all from the current state, called by c (the owner holds the releaser role)
Split(c, u, a, b) ==
    LET r1 == releaseZKTC_tx(Ledger, c, a, u, 0, now)
        r2 == releaseZKTC_tx(r1.st, c, b, u, 0, now)
        r12 == releaseZKTC_tx(Ledger, c, a + b, u, 0, now)
    IN [ok |-> r1.err = "none" /\ r2.err = "none" /\ r12.err = "none",
        samePrice |-> r1.st.tokenPrice = tokenPrice,
        two |-> r2.st.userLockedTokens[u],
        one |-> r12.st.userLockedTokens[u]]

\* C15: releaseZKTC(a, user, 0) followed by releaseZKTC(b, user, 0) leaves the
\* user's lock with the same totalAmount as a single releaseZKTC(a + b, user, 0)
\* from the same state, and with sevenMonthAmount and oneYearAmount each
\* within 1 unit of the single call's.
C15_LockMergeAssociative ==
    \A u \in Buyers \ {ZERO}, a \in MergeAmounts, b \in MergeAmounts :
        LET x == Split(OWNER, u, a, b)
        IN x.ok =>
               /\ x.two.totalAmount = x.one.totalAmount
               /\ Within1(x.two.sevenMonthAmount, x.one.sevenMonthAmount)
               /\ Within1(x.two.oneYearAmount, x.one.oneYearAmount)

\* C15 amended: when the first call leaves tokenPrice unchanged, the two calls
\* leave totalAmount equal to the single call's or 1 unit below it (each call
\* floors its own division), and each tranche amount within 1 unit.
C15_LockMergeUpToRounding ==
    \A u \in Buyers \ {ZERO}, a \in MergeAmounts, b \in MergeAmounts :
        LET x == Split(OWNER, u, a, b)
        IN (x.ok /\ x.samePrice) =>
               /\ x.one.totalAmount - x.two.totalAmount \in {0, 1}
               /\ Within1(x.two.sevenMonthAmount, x.one.sevenMonthAmount)
               /\ Within1(x.two.oneYearAmount, x.one.oneYearAmount)

\* C15 witness: a user with a lock for whom the split calls and the single call
\* all succeed at one price and the single call locks one unit more
C15_Witness ==
    \E u \in Buyers \ {ZERO}, a \in MergeAmounts, b \in MergeAmounts :
        LET x == Split(OWNER, u, a, b)
        IN /\ userLockedTokens[u].totalAmount > 0
           /\ x.ok /\ x.samePrice
           /\ x.one.totalAmount = x.two.totalAmount + 1
           /\ x.two.totalAmount > userLockedTokens[u].totalAmount

\* C16: a releaseZKTC by a releaser with now <= DCO_END_TIME, not both amounts
\* zero, a non-null buyer and balance > 0 fails with InsufficientTokens,
\* changing nothing, exactly when balance - totalDonations - tokenSold is
\* below tokensToBuy + donation, and succeeds otherwise: it fails with no
\* other error.
C16_ReleaseFailsOnlyOnSupply ==
    \A c \in releasers, a \in UsdAmounts, b \in Users, d \in UsdAmounts :
        (now <= DCO_END_TIME /\ (a > 0 \/ d > 0) /\ balance > 0) =>
            LET r == releaseZKTC_tx(Ledger, c, a, b, d, now)
                needed == TokensFor(Ledger, a) + TokensFor(Ledger, d)
            IN IF balance - totalDonations - tokenSold < needed
               THEN r.err = "InsufficientTokens" /\ FailsClean(r)
               ELSE r.err = "none"

\* C17: while the token transfer of injectSupply, DonateToZCW, withdraw,
\* withdrawParticularZKTC or withdrawAllZKTC is in flight, no call made from a
\* callback of the token enters a state-changing function of the ledger: every
\* such call reverts.
C17_NoCallbackEntersLedger ==
    \A o \in TransferOps : \A outer \in Transferring(Ledger, o, now) :
        \A i \in Ops : \A inner \in CallsOf(i) :
            Callback(Ledger, outer, inner, now).err # "none"

\* the functions gated by RELEASER_ROLE
ReleaserOps == {"setTokenPrice", "releaseZKTC", "updatePriceThresholds", "DonateToZCW",
                "UpdateAllocations", "updateThreshold", "updateUsdtGathered",
                "setTimePeriods"}

HoldersOf(s, role) == IF role = RELEASER_ROLE THEN s.releasers ELSE s.walletSuppliers

\* the call returned and left account a without the role
Revokes(role, a, r) == r.err = "none" /\ a \notin HoldersOf(r.st, role)

\* some call of the owner takes the role away from account a
OwnerCanRevoke(role, a) ==
    \/ Revokes(role, a, removeReleaser_tx(Ledger, OWNER, a))
    \/ Revokes(role, a, revokeRole_tx(Ledger, OWNER, role, a))
    \/ \E o \in Ops : \E call \in CallsOf(o) :
           call.caller = OWNER /\ Revokes(role, a, Dispatch(Ledger, call, now))

\* C18: the owner can grant each of the releaser and wallet-supplier roles to
\* any address and revoke it again; an address that does not hold a role fails
\* in every function gated by that role; granting or revoking one role leaves
\* the holders of the other unchanged.
C18_RolesGrantableAndRevocable ==
    \A a \in Users :
        /\ addReleaser_tx(Ledger, OWNER, a).err = "none"
        /\ a \in addReleaser_tx(Ledger, OWNER, a).st.releasers
        /\ addReleaser_tx(Ledger, OWNER, a).st.walletSuppliers = walletSuppliers
        /\ setWalletSupplier_tx(Ledger, OWNER, a).err = "none"
        /\ a \in setWalletSupplier_tx(Ledger, OWNER, a).st.walletSuppliers
        /\ setWalletSupplier_tx(Ledger, OWNER, a).st.releasers = releasers
        /\ removeReleaser_tx(Ledger, OWNER, a).st.walletSuppliers = walletSuppliers
        /\ a \in releasers => OwnerCanRevoke(RELEASER_ROLE, a)
        /\ a \in walletSuppliers => OwnerCanRevoke(WALLET_SUPPLIER_ROLE, a)
        /\ a \notin releasers =>
               \A o \in ReleaserOps : \A call \in CallsOf(o) :
                   call.caller = a => Dispatch(Ledger, call, now).err # "none"
        /\ a \notin walletSuppliers =>
               \A call \in CallsOf("setWalletAddresses") :
                   call.caller = a => Dispatch(Ledger, call, now).err # "none"

\* the part of the ledger the events are to account for
Observed == <<tokenPrice, threshold, incrementThreshold, totalUsdGathered, tokenSold,
              totalDonations, userLockedTokens, DCO_END_TIME, SEVEN_MONTHS, ONE_YEAR>>

\* C19: every successful call that changes tokenPrice, threshold,
\* incrementThreshold, totalUsdGathered, tokenSold, totalDonations, a user's
\* lock or a time mark emits at least one event.
C19_StateChangeEmitsEvent ==
    [][(txCount' # txCount /\ Observed' # Observed) => last'.events # <<>>]_vars

\* C20: once a user holds a lock, no later locking for that user (a repeat
\* releaseZKTC, an UpdateAllocations) nor any other step changes the lock's
\* lockTimestamp.
C20_LockTimestampSetOnce ==
    [][\A u \in Users :
           userLockedTokens[u].totalAmount > 0 =>
               userLockedTokens'[u].lockTimestamp = userLockedTokens[u].lockTimestamp]_vars

\* C21: whenever a Sign & Confirm run brings a listed, not yet executed Safe
\* transaction from fewer than confirmationsRequired confirmations to at least
\* that many, and isValidTransaction holds, the same run executes it.
C21_SignReachingThresholdExecutes ==
    \A signer \in SafeOwners, h \in SafeTxHashes :
        LET pendingTx == pendingTransactions[h]
            r == signPendingTransaction_run(confirmations, isExecuted, pendingTx, h, signer)
        IN  (/\ pendingTx.listed
             /\ h \notin isExecuted
             /\ isValidTransaction(h, isExecuted)
             /\ Cardinality(confirmations[h]) < requiredConfirmations(pendingTx)
             /\ Cardinality(r.confirmations[h]) >= requiredConfirmations(pendingTx))
            => h \in r.isExecuted

\* C22: whenever the unclamped tokensForPurchase + tokensForDonation exceeds
\* the available balance (here the balance getQuote itself reads, balance -
\* totalDonations), getQuote returns without error, its tokensForDonation is
\* the unreduced floor(donationAmount * 10^18 / tokenPrice) and its two
\* results sum to the available balance exactly, for all inputs.
C22_QuoteClampsToAvailable ==
    \A a \in UsdAmounts, d \in UsdAmounts :
        LET q == getQuote(Ledger, a, d)
        IN  (/\ tokenPrice # 0
             /\ balance >= totalDonations
             /\ TokensFor(Ledger, a) + TokensFor(Ledger, d) > balance - totalDonations)
            => /\ q.err = "none"
               /\ q.donatedTokens = TokensFor(Ledger, d)
               /\ q.tokensToReceive + q.donatedTokens = balance - totalDonations

\* C23: with SEVEN_MONTHS <= now < ONE_YEAR, a user's first claim transfers
\* exactly sevenMonthAmount and leaves oneYearClaimed unchanged, and a claim
\* made when the seven-month tranche is already fully claimed fails with
\* OneYearReleaseNotAvailable, transferring nothing and changing no state.
C23_SevenMonthWindowClaim ==
    \A u \in Addr :
        LET lock == userLockedTokens[u]
            r == withdraw_tx(Ledger, u, now)
        IN  (lock.totalAmount > 0 /\ SEVEN_MONTHS <= now /\ now < ONE_YEAR)
            => /\ (lock.sevenMonthClaimed = 0 /\ lock.sevenMonthAmount > 0)
                    => /\ r.err = "none"
                       /\ r.to = u
                       /\ r.sent = lock.sevenMonthAmount
                       /\ r.st.userLockedTokens[u].oneYearClaimed = lock.oneYearClaimed
               /\ (lock.sevenMonthAmount > 0 /\ lock.sevenMonthClaimed = lock.sevenMonthAmount)
                    => /\ r.err = "OneYearReleaseNotAvailable"
                       /\ r.st = Ledger
                       /\ r.sent = 0

\* the amount a transaction locked for the user, read off its TokensLocked event
LockedBy(events, u) ==
    LET hits == {i \in DOMAIN events :
                    events[i].name = "TokensLocked" /\ events[i].args[1] = u}
    IN  IF hits = {} THEN 0 ELSE events[CHOOSE i \in hits : TRUE].args[2]

\* C24: a user's lock is only grown additively: across every step totalAmount,
\* sevenMonthAmount and oneYearAmount do not decrease, and totalAmount grows
\* by exactly the amount the step locked for the user, so that it is the sum
\* of all amounts ever locked for them.
C24_LockOnlyGrows ==
    [][\A u \in Addr :
          /\ userLockedTokens'[u].totalAmount >= userLockedTokens[u].totalAmount
          /\ userLockedTokens'[u].sevenMonthAmount >= userLockedTokens[u].sevenMonthAmount
          /\ userLockedTokens'[u].oneYearAmount >= userLockedTokens[u].oneYearAmount
          /\ userLockedTokens'[u].totalAmount =
                 userLockedTokens[u].totalAmount
                     + (IF txCount' # txCount THEN LockedBy(last'.events, u) ELSE 0)]_vars

\* C25: in every reachable state getWithdrawableAmount(user) returns exactly
\* what a withdraw() by that user at the same time would transfer (0 when the
\* call would fail), and for a user holding a lock getTimeUntilRelease(user)
\* reports 0 for a tranche exactly when withdraw() releases that tranche at
\* this time.
C25_AccessorsAgreeWithWithdraw ==
    \A u \in Addr :
        LET r == withdraw_tx(Ledger, u, now)
            g == getWithdrawableAmount(Ledger, u, now)
            tt == getTimeUntilRelease(Ledger, u, now)
        IN  /\ g.err = "none"
            /\ g.withdrawableAmount = (IF r.err = "none" THEN r.sent ELSE 0)
            /\ userLockedTokens[u].totalAmount > 0
                  => /\ tt.err = "none"
                     /\ (tt.timeUntilSevenMonth = 0) <=> (now >= SEVEN_MONTHS)
                     /\ (tt.timeUntilOneYear = 0) <=> (now >= ONE_YEAR)

\* C26: a successful setDCOEndTime(newTime) emits DCOEndTimeUpdated(oldTime,
\* newTime), oldTime the value of DCO_END_TIME before the call and newTime
\* its value after the call.
C26_EndTimeEventCarriesOldAndNew ==
    [][Step("setDCOEndTime") =>
          last'.events = <<Event("DCOEndTimeUpdated", <<DCO_END_TIME, DCO_END_TIME'>>)>>]_vars

\* the failures of a role check, a sale-period check and a balance check
CheckFailures ==
    {UNAUTHORIZED_OWNER, UNAUTHORIZED_ROLE, "DCONotActive",
     "CannotWithdrawBeforeGlobalRelease", "InsufficientBalance",
     "InsufficientTokens", "NoTokensRemaining"}

\* C27: in every operation the role check, the sale-period check and the
\* insufficient-balance check come before the first write to a ledger
\* variable: no call that fails one of them has written anything by then, in
\* particular not withdraw() when it fails its balance check.
C27_ChecksBeforeWrites ==
    \A op \in Ops : \A call \in CallsOf(op) :
        LET r == Dispatch(Ledger, call, now)
        IN  r.err \in CheckFailures => ~r.wrote

\* C28: for every user, in every reachable state, totalAmount =
\* sevenMonthAmount + oneYearAmount and sevenMonthAmount <= oneYearAmount.
C28_TranchesSumToTotal ==
    \A u \in Addr :
        /\ userLockedTokens[u].totalAmount =
               userLockedTokens[u].sevenMonthAmount + userLockedTokens[u].oneYearAmount
        /\ userLockedTokens[u].sevenMonthAmount <= userLockedTokens[u].oneYearAmount

\* C28 witness: a lock of an odd amount, its tranches unequal, whose
\* seven-month tranche has been paid
C28_Witness ==
    \E u \in Users :
        /\ userLockedTokens[u].sevenMonthAmount > 0
        /\ userLockedTokens[u].sevenMonthAmount < userLockedTokens[u].oneYearAmount
        /\ userLockedTokens[u].sevenMonthClaimed > 0

\* C29: for every user, sevenMonthClaimed + oneYearClaimed is the total that
\* withdraw() has transferred to them: across every step neither counter
\* decreases, a counter changes only in that user's own successful
\* withdraw(), and the two counters grow together by exactly the amount that
\* withdraw() transferred to the user.
C29_ClaimedIsTotalWithdrawn ==
    [][\A u \in Addr :
          LET before == userLockedTokens[u]
              after == userLockedTokens'[u]
              own == Step("withdraw") /\ last'.caller = u
          IN  /\ after.sevenMonthClaimed >= before.sevenMonthClaimed
              /\ after.oneYearClaimed >= before.oneYearClaimed
              /\ (after.sevenMonthClaimed # before.sevenMonthClaimed
                     \/ after.oneYearClaimed # before.oneYearClaimed) => own
              /\ after.sevenMonthClaimed + after.oneYearClaimed
                     = before.sevenMonthClaimed + before.oneYearClaimed
                          + (IF own /\ last'.to = u THEN last'.sent ELSE 0)]_vars

\* C29 witness: a user's second paying withdraw() from the seven-month
\* tranche, which UpdateAllocations refilled after the first
C29_Witness ==
    /\ last.op = "withdraw"
    /\ last.sent > 0
    /\ userLockedTokens[last.caller].sevenMonthClaimed > last.sent
    /\ userLockedTokens[last.caller].oneYearClaimed = 0

\* some releaseZKTC call passes the role check and the sale-period check
AllocatePermitted ==
    \E c \in Addr, a \in UsdAmounts, b \in Buyers, d \in UsdAmounts :
        releaseZKTC_tx(Ledger, c, a, b, d, now).err \notin {UNAUTHORIZED_ROLE, "DCONotActive"}

\* the owner's withdrawParticularZKTC / withdrawAllZKTC pass the sale-period check
OwnerWithdrawalPermitted ==
    /\ withdrawAllZKTC_tx(Ledger, OWNER, now).err # "CannotWithdrawBeforeGlobalRelease"
    /\ \A a \in OwnerWithdrawInputs :
           withdrawParticularZKTC_tx(Ledger, OWNER, a, now).err
               # "CannotWithdrawBeforeGlobalRelease"

\* C30: releaseZKTC and the owner withdrawals are never both permitted by
\* their sale-period checks, and once the owner withdrawals are permitted
\* releaseZKTC is not permitted again: whenever the owner withdrawals are
\* permitted, releaseZKTC is permitted neither in that state nor in the next.
C30_SaleAndOwnerWithdrawalSeparate ==
    [][OwnerWithdrawalPermitted => (~AllocatePermitted /\ ~AllocatePermitted')]_vars

====
